---------------------------- MODULE Spec2Model ----------------------------
(***************************************************************************)
(* A model of the chat backend: the conversations and messages tables      *)
(* (GORM rows with soft delete), the chat orchestration of                 *)
(* internal/service/chat_service.go, the HTTP handlers of                  *)
(* internal/handler/chat_handler.go and the streaming bridge of the AI     *)
(* service (StreamResponse: one producer goroutine feeding two channels),  *)
(* and the users table with the user routes of                             *)
(* internal/service/user_service.go and internal/handler/user_handler.go.  *)
(*                                                                         *)
(* Text (a title, a message content, a chunk) is a sequence of tokens, so  *)
(* that string concatenation is \o and the empty string is << >>.          *)
(* Time is a logical clock: every statement that stamps a row reads `now`  *)
(* and advances it.                                                        *)
(***************************************************************************)
EXTENDS Integers, Sequences, FiniteSets, TLC

VARIABLES
    conversations,  \* table conversations: sequence of rows, id = position
    messages,       \* table messages: sequence of rows, id = position
    now,            \* the clock read by CreatedAt / UpdatedAt
    out,            \* the HTTP response written by the last step (NoResponse if none)
    send,           \* the in-flight SendMessage request (blocked in GenerateResponse)
    stream,         \* the in-flight StreamChat request (handler + service loop)
    prod,           \* the goroutine started by StreamResponse
    respChan,       \* buffered chunks of respChan
    respClosed,     \* respChan has been closed
    errorChan,      \* buffered errors of errorChan
    errClosed,      \* errorChan has been closed
    ctxDone,        \* the request context has been cancelled
    events,         \* SSE events written to the client so far
    users,          \* table users: sequence of rows, id = position
    reg,            \* the in-flight Register requests (between First and Create)
    req             \* the user-route request answered by the last step

vars == <<conversations, messages, now, out, send, stream, prod,
          respChan, respClosed, errorChan, errClosed, ctxDone, events, users, reg, req>>

dbVars     == <<conversations, messages, now>>
streamVars == <<stream, prod, respChan, respClosed, errorChan, errClosed, ctxDone, events>>
userVars   == <<users, reg, req>>
chatVars   == <<conversations, messages, send, streamVars>>

---------------------------------------------------------------------------
(* Bounds of the model *)

MaxClock    == 4     \* no request that stamps a row starts once the clock shows this
MaxTurns    == 2     \* user turns SpecHistory adds to a seeded history
MaxChunks   == 12    \* frames the provider stream delivers at most
MaxSeed     == 21    \* longest seeded history of SpecHistory

(* Program constants *)

HistoryLimit        == 20
RespChanCap         == 10
ErrorChanCap        == 1
MaxPageSize         == 100
DefaultConvPageSize == 20
DefaultMsgPageSize  == 50
StatusOK                  == 200
StatusCreated             == 201
StatusBadRequest          == 400
StatusUnauthorized        == 401
StatusNotFound            == 404
StatusInternalServerError == 500

Users    == {1, 2}                     \* authenticated user ids
ConvIds  == {1, 2}                     \* ids a request may name (existing or not)
NewTitles    == {<<1>>}                \* validated titles of CreateConversation
UpdateTitles == {<<2>>}                \* validated titles of UpdateConversation
Contents == {<<1>>}                    \* validated request contents (non-empty)
Queries  == {[page |-> 0, page_size |-> 500],  \* raw ?page= and ?page_size= values
             [page |-> 2, page_size |-> 1]}

NoResponse == [op |-> "none"]

Min(a, b) == IF a < b THEN a ELSE b

---------------------------------------------------------------------------
(* Rows and queries (GORM: every query adds deleted_at IS NULL) *)

\* src/unnamed/part_002:24-35
Conversation(id, uid, title, t) ==
    [id |-> id, user_id |-> uid, title |-> title,
     created_at |-> t, updated_at |-> t, deleted |-> FALSE]

\* src/unnamed/part_002:37-48
Message(id, cid, role, content, t) ==
    [id |-> id, conversation_id |-> cid, role |-> role, content |-> content,
     created_at |-> t, deleted |-> FALSE]

\* Where("id = ? AND user_id = ?", conversationID, userID).First(&conversation)
FindConversation(uid, cid) ==
    {i \in DOMAIN conversations :
        /\ conversations[i].id = cid
        /\ conversations[i].user_id = uid
        /\ ~conversations[i].deleted}

\* Mutant of ConversationsOf: the user_id filter is missing
ConversationsOfAnyone(uid) ==
    {i \in DOMAIN conversations : ~conversations[i].deleted}

\* Where("user_id = ?", userID) on conversations
ConversationsOf(uid) ==
    {i \in DOMAIN conversations :
        conversations[i].user_id = uid /\ ~conversations[i].deleted}

\* Where("conversation_id = ?", conversationID) on a messages table
MessagesOf(msgs, cid) ==
    {i \in DOMAIN msgs : msgs[i].conversation_id = cid /\ ~msgs[i].deleted}

\* Order("updated_at DESC") over a set of conversation ids
RECURSIVE OrderUpdatedDesc(_)
OrderUpdatedDesc(S) ==
    IF S = {} THEN << >>
    ELSE LET m == CHOOSE i \in S :
                    \A j \in S : conversations[j].updated_at <= conversations[i].updated_at
         IN  <<conversations[m]>> \o OrderUpdatedDesc(S \ {m})

\* Order("created_at ASC") over a set of message ids of table msgs
RECURSIVE OrderCreatedAsc(_, _)
OrderCreatedAsc(msgs, S) ==
    IF S = {} THEN << >>
    ELSE LET m == CHOOSE i \in S :
                    \A j \in S : msgs[i].created_at <= msgs[j].created_at
         IN  <<msgs[m]>> \o OrderCreatedAsc(msgs, S \ {m})

\* Offset(offset).Limit(limit)
OffsetLimit(rows, offset, limit) ==
    SubSeq(rows, offset + 1, Min(offset + limit, Len(rows)))

---------------------------------------------------------------------------
(* HTTP handlers and services of the conversation CRUD routes *)

\* if page < 1 { page = 1 }
ClampPage(page) == IF page < 1 THEN 1 ELSE page

\* if pageSize < 1 || pageSize > 100 { pageSize = <default> }
ClampPageSize(pageSize, default) ==
    IF pageSize < 1 \/ pageSize > MaxPageSize THEN default ELSE pageSize

\* totalPages := int((total + int64(pageSize) - 1) / int64(pageSize))
TotalPages(total, pageSize) == (total + pageSize - 1) \div pageSize

\* ChatService.GetConversations
GetConversationsSvc(uid, page, pageSize) ==
    LET S == ConversationsOf(uid)
    IN  [data  |-> OffsetLimit(OrderUpdatedDesc(S), (page - 1) * pageSize, pageSize),
         total |-> Cardinality(S)]

\* ChatHandler.GetConversations
GetConversations(uid, rawPage, rawPageSize) ==
    LET page     == ClampPage(rawPage)
        pageSize == ClampPageSize(rawPageSize, DefaultConvPageSize)
        r        == GetConversationsSvc(uid, page, pageSize)
    IN  /\ out' = [op |-> "GetConversations", status |-> StatusOK, user |-> uid,
                   data |-> r.data, total |-> r.total, page |-> page,
                   page_size |-> pageSize,
                   total_pages |-> TotalPages(r.total, pageSize)]
        /\ UNCHANGED <<dbVars, send, streamVars>>
        /\ UNCHANGED userVars

\* ChatHandler.CreateConversation / ChatService.CreateConversation
CreateConversation(uid, title) ==
    LET row == Conversation(Len(conversations) + 1, uid, title, now)
    IN  /\ conversations' = Append(conversations, row)
        /\ now' = now + 1
        /\ out' = [op |-> "CreateConversation", status |-> StatusCreated,
                   user |-> uid, data |-> row]
        /\ UNCHANGED <<messages, send, streamVars>>
        /\ UNCHANGED userVars

\* ChatHandler.GetConversation / ChatService.GetConversation
GetConversation(uid, cid) ==
    LET found == FindConversation(uid, cid)
    IN  /\ out' = IF found = {}
                  THEN [op |-> "GetConversation", status |-> StatusNotFound,
                        user |-> uid, conv |-> cid]
                  ELSE [op |-> "GetConversation", status |-> StatusOK,
                        user |-> uid, conv |-> cid,
                        data |-> conversations[CHOOSE i \in found : TRUE]]
        /\ UNCHANGED <<dbVars, send, streamVars>>
        /\ UNCHANGED userVars

\* ChatService.UpdateConversation: Model(..).Where(id, user_id).Update("title", title);
\* GORM stamps updated_at on Update and reports no error when no row matches.
UpdateConversationSvc(uid, cid, title) ==
    [i \in DOMAIN conversations |->
        IF i \in FindConversation(uid, cid)
        THEN [conversations[i] EXCEPT !.title = title, !.updated_at = now]
        ELSE conversations[i]]

\* ChatHandler.UpdateConversation
UpdateConversation(uid, cid, title) ==
    /\ conversations' = UpdateConversationSvc(uid, cid, title)
    /\ now' = IF FindConversation(uid, cid) = {} THEN now ELSE now + 1
    /\ out' = [op |-> "UpdateConversation", status |-> StatusOK,
               user |-> uid, conv |-> cid]
    /\ UNCHANGED <<messages, send, streamVars>>
    /\ UNCHANGED userVars

\* tx.Where("conversation_id = ?", conversationID).Delete(&model.Message{})
DeleteMessagesStmt(msgs, cid) ==
    [i \in DOMAIN msgs |->
        IF i \in MessagesOf(msgs, cid) THEN [msgs[i] EXCEPT !.deleted = TRUE]
        ELSE msgs[i]]

\* tx.Where("id = ? AND user_id = ?", conversationID, userID).Delete(&model.Conversation{})
DeleteConversationStmt(uid, cid) ==
    [i \in DOMAIN conversations |->
        IF i \in FindConversation(uid, cid)
        THEN [conversations[i] EXCEPT !.deleted = TRUE]
        ELSE conversations[i]]

\* Where a statement of the delete transaction may fail
Faults == {"none", "messages", "conversation", "commit"}

\* What tx.Rollback() (or a failed Commit) leaves: both tables as at Begin
Rollback == [err |-> "db", messages |-> messages, conversations |-> conversations]

\* Mutant of DeleteConversationSvc: the messages are deleted through s.db, outside
\* the transaction, so a later failure does not undo it
DeleteConversationNoTx(uid, cid, fault) ==
    IF fault = "messages" THEN Rollback
    ELSE IF fault \in {"conversation", "commit"}
         THEN [err |-> "db",
               messages |-> DeleteMessagesStmt(messages, cid),
               conversations |-> conversations]
         ELSE [err |-> "nil",
               messages |-> DeleteMessagesStmt(messages, cid),
               conversations |-> DeleteConversationStmt(uid, cid)]

\* ChatService.DeleteConversation: Begin; delete messages; delete conversation; Commit
DeleteConversationSvc(uid, cid, fault) ==
    IF fault = "messages" THEN Rollback
    ELSE IF fault = "conversation" THEN Rollback
    ELSE IF fault = "commit" THEN Rollback
    ELSE [err |-> "nil",
          messages |-> DeleteMessagesStmt(messages, cid),
          conversations |-> DeleteConversationStmt(uid, cid)]

\* ChatHandler.DeleteConversation
DeleteConversation(uid, cid, fault) ==
    LET r == DeleteConversationSvc(uid, cid, fault)
    IN  /\ messages' = r.messages
        /\ conversations' = r.conversations
        /\ out' = [op |-> "DeleteConversation",
                   status |-> IF r.err = "nil" THEN StatusOK
                              ELSE StatusInternalServerError,
                   user |-> uid, conv |-> cid]
        /\ UNCHANGED <<now, send, streamVars>>
        /\ UNCHANGED userVars

\* ChatService.GetMessages
GetMessagesSvc(uid, cid, page, pageSize) ==
    IF FindConversation(uid, cid) = {}
    THEN [err |-> "record not found", data |-> << >>, total |-> 0]
    ELSE LET S == MessagesOf(messages, cid)
         IN  [err   |-> "nil",
              data  |-> OffsetLimit(OrderCreatedAsc(messages, S),
                                    (page - 1) * pageSize, pageSize),
              total |-> Cardinality(S)]

\* ChatHandler.GetMessages
GetMessages(uid, cid, rawPage, rawPageSize) ==
    LET page     == ClampPage(rawPage)
        pageSize == ClampPageSize(rawPageSize, DefaultMsgPageSize)
        r        == GetMessagesSvc(uid, cid, page, pageSize)
    IN  /\ out' = IF r.err # "nil"
                  THEN [op |-> "GetMessages", status |-> StatusInternalServerError,
                        user |-> uid, conv |-> cid, error |-> r.err]
                  ELSE [op |-> "GetMessages", status |-> StatusOK,
                        user |-> uid, conv |-> cid,
                        data |-> r.data, total |-> r.total, page |-> page,
                        page_size |-> pageSize,
                        total_pages |-> TotalPages(r.total, pageSize)]
        /\ UNCHANGED <<dbVars, send, streamVars>>
        /\ UNCHANGED userVars

---------------------------------------------------------------------------
(* SendMessage: the non-streaming turn *)

\* switch msg.Role { case "user" .. "assistant" .. "system" .. default: schema.User }
AIRole(role) ==
    CASE role = "user"      -> "user"
      [] role = "assistant" -> "assistant"
      [] role = "system"    -> "system"
      [] OTHER              -> "user"

\* aiMessages[i] = &schema.Message{Role: role, Content: msg.Content}
RECURSIVE ToAIMessages(_)
ToAIMessages(rows) ==
    IF rows = << >> THEN << >>
    ELSE <<[role |-> AIRole(Head(rows).role), content |-> Head(rows).content]>>
         \o ToAIMessages(Tail(rows))

\* Where("conversation_id = ?", id).Order("created_at ASC").Limit(20).Find(&historyMessages)
HistoryMessages(msgs, cid) ==
    OffsetLimit(OrderCreatedAsc(msgs, MessagesOf(msgs, cid)), 0, HistoryLimit)

\* What s.model.Generate may return: a transport error, an empty completion, a reply
Replies == {[err |-> TRUE,  content |-> << >>],
            [err |-> FALSE, content |-> << >>],
            [err |-> FALSE, content |-> <<7>>]}

\* Mutant of GenerateResponse: the check resp.Content == "" is left out
GenerateResponseAnyContent(reply) ==
    IF reply.err THEN [err |-> "failed to generate response", content |-> << >>]
    ELSE [err |-> "nil", content |-> reply.content]

\* AIService.GenerateResponse
GenerateResponse(reply) ==
    IF reply.err THEN [err |-> "failed to generate response", content |-> << >>]
    ELSE IF reply.content = << >>
         THEN [err |-> "no response generated", content |-> << >>]
         ELSE [err |-> "nil", content |-> reply.content]

\* s.db.Model(&conversation).Update("updated_at", assistantMessage.CreatedAt)
TouchConversation(cid, t) ==
    [i \in DOMAIN conversations |->
        IF conversations[i].id = cid /\ ~conversations[i].deleted
        THEN [conversations[i] EXCEPT !.updated_at = t]
        ELSE conversations[i]]

Idle == [pc |-> "idle"]

\* ChatHandler.SendMessage / ChatService.SendMessage up to the call of GenerateResponse:
\* verify ownership, save the user message, load the history
SendMessageBegin(uid, cid, content) ==
    /\ send.pc = "idle"
    /\ IF FindConversation(uid, cid) = {}
       THEN /\ out' = [op |-> "SendMessage", status |-> StatusInternalServerError,
                       user |-> uid, conv |-> cid, error |-> "record not found"]
            /\ UNCHANGED <<dbVars, send, streamVars>>
       ELSE LET userMessage == Message(Len(messages) + 1, cid, "user", content, now)
                msgs        == Append(messages, userMessage)
            IN  /\ messages' = msgs
                /\ now' = now + 1
                /\ send' = [pc |-> "generating", user |-> uid, conv |-> cid,
                            userMessage |-> userMessage,
                            aiMessages |-> ToAIMessages(HistoryMessages(msgs, cid))]
                /\ out' = NoResponse
                /\ UNCHANGED <<conversations, streamVars>>
    /\ UNCHANGED userVars

\* ChatService.SendMessage from the return of GenerateResponse, and the handler's answer
SendMessageEnd(reply) ==
    /\ send.pc = "generating"
    /\ LET r == GenerateResponse(reply)
       IN  IF r.err # "nil"
           THEN /\ out' = [op |-> "SendMessage", status |-> StatusInternalServerError,
                           user |-> send.user, conv |-> send.conv, error |-> r.err]
                /\ UNCHANGED dbVars
           ELSE LET assistantMessage ==
                        Message(Len(messages) + 1, send.conv, "assistant", r.content, now)
                IN  /\ messages' = Append(messages, assistantMessage)
                    /\ conversations' = TouchConversation(send.conv, assistantMessage.created_at)
                    /\ now' = now + 1
                    /\ out' = [op |-> "SendMessage", status |-> StatusOK,
                               user |-> send.user, conv |-> send.conv,
                               user_message |-> send.userMessage,
                               assistant_message |-> assistantMessage]
    /\ send' = Idle
    /\ UNCHANGED streamVars
    /\ UNCHANGED userVars

---------------------------------------------------------------------------
(* StreamChat: the streaming turn.  The request's goroutine runs the handler *)
(* and the select loop of ChatService.StreamChat; StreamResponse starts one  *)
(* more goroutine, which reads the provider stream and feeds respChan and    *)
(* errorChan.                                                                *)

\* The goroutine before go func(): pc its position, n the frames read from the
\* provider stream, reply the text the provider has delivered in them, open whether
\* the provider stream is held, chunk and err the loop's locals, sawDone whether
\* the <-ctx.Done() case was taken
NoProducer == [pc |-> "off", n |-> 0, reply |-> << >>, open |-> FALSE,
               chunk |-> << >>, err |-> "nil", sawDone |-> FALSE]

\* sseSender.Send(ctx, &sse.Event{..}): the event reaches the client, or Send fails
SendEvent(ok, ev) == IF ok THEN Append(events, ev) ELSE events

\* Mutant of FinishEvents: the end event is sent whatever StreamChat returned
FinishEventsAlwaysEnd(evs, err, userMessage, ok) ==
    IF ~ok THEN evs
    ELSE Append(evs, [type |-> "end",
                      user_message_id |-> IF userMessage = << >> THEN 0
                                          ELSE userMessage.id])

\* The handler's tail once ChatService.StreamChat has returned err: the error event
\* (err != nil), or the end event carrying userMessage.ID
FinishEvents(evs, err, userMessage, ok) ==
    IF ~ok THEN evs
    ELSE IF err # "nil" THEN Append(evs, [type |-> "error", message |-> err])
         ELSE Append(evs, [type |-> "end", user_message_id |-> userMessage.id])

\* ChatHandler.StreamChat up to the select loop: the start event, then
\* ChatService.StreamChat's setup (verify ownership, save the user message, load
\* the history) and StreamResponse's make(chan ..) and go func()
StreamChatBegin(uid, cid, content, startOk, errOk) ==
    /\ stream.pc = "idle"
    /\ out' = NoResponse
    /\ IF ~startOk
       THEN /\ stream' = [pc |-> "done", user |-> uid, conv |-> cid, err |-> "send start",
                          fullResponse |-> << >>]
            /\ UNCHANGED <<dbVars, send, prod, respChan, respClosed, errorChan,
                           errClosed, ctxDone, events>>
       ELSE IF FindConversation(uid, cid) = {}
       THEN /\ stream' = [pc |-> "done", user |-> uid, conv |-> cid,
                          err |-> "record not found",
                          fullResponse |-> << >>]
            /\ events' = FinishEvents(Append(events, [type |-> "start"]),
                                      "record not found", << >>, errOk)
            /\ UNCHANGED <<dbVars, send, prod, respChan, respClosed, errorChan,
                           errClosed, ctxDone>>
       ELSE LET userMessage == Message(Len(messages) + 1, cid, "user", content, now)
                msgs        == Append(messages, userMessage)
            IN  /\ messages' = msgs
                /\ now' = now + 1
                /\ stream' = [pc |-> "loop", user |-> uid, conv |-> cid, err |-> "nil",
                              userMessage |-> userMessage,
                              aiMessages |-> ToAIMessages(HistoryMessages(msgs, cid)),
                              fullResponse |-> << >>]
                /\ events' = Append(events, [type |-> "start"])
                /\ prod' = [NoProducer EXCEPT !.pc = "stream"]
                /\ respChan' = << >>
                /\ errorChan' = << >>
                /\ respClosed' = FALSE
                /\ errClosed' = FALSE
                /\ UNCHANGED <<conversations, send, ctxDone>>
    /\ UNCHANGED userVars

\* Mutant of Callback: the result of Send is dropped and nil returned
CallbackSwallowsError(cbOk) == "nil"

\* The handler's callback: return sseSender.Send(ctx, ..), nil when the chunk
\* event was written
Callback(cbOk) == IF cbOk THEN "nil" ELSE "send chunk"

\* case chunk, ok := <-respChan with a buffered chunk: accumulate, then
\* if err := callback(chunk); err != nil { return &userMessage, err }
RecvChunk(cbOk, errOk) ==
    /\ stream.pc = "loop"
    /\ respChan # << >>
    /\ out' = NoResponse
    /\ respChan' = Tail(respChan)
    /\ IF Callback(cbOk) = "nil"
       THEN /\ stream' = [stream EXCEPT !.fullResponse = @ \o Head(respChan)]
            /\ events' = SendEvent(cbOk, [type |-> "chunk", content |-> Head(respChan)])
            /\ UNCHANGED dbVars
       ELSE /\ stream' = [stream EXCEPT !.pc = "done", !.err = Callback(cbOk),
                                        !.fullResponse = @ \o Head(respChan)]
            /\ events' = FinishEvents(events, Callback(cbOk), stream.userMessage, errOk)
            /\ UNCHANGED dbVars
    /\ UNCHANGED <<send, prod, respClosed, errorChan, errClosed, ctxDone>>
    /\ UNCHANGED userVars

\* case chunk, ok := <-respChan with !ok: goto StreamEnd; save the assistant message,
\* touch the conversation, return &userMessage, nil; the handler's end event
RecvClosed(endOk) ==
    /\ stream.pc = "loop"
    /\ respChan = << >>
    /\ respClosed
    /\ out' = NoResponse
    /\ LET assistantMessage ==
               Message(Len(messages) + 1, stream.conv, "assistant",
                       stream.fullResponse, now)
       IN  /\ messages' = Append(messages, assistantMessage)
           /\ conversations' = TouchConversation(stream.conv, assistantMessage.created_at)
           /\ now' = now + 1
    /\ stream' = [stream EXCEPT !.pc = "done", !.err = "nil"]
    /\ events' = FinishEvents(events, "nil", stream.userMessage, endOk)
    /\ UNCHANGED <<send, prod, respChan, respClosed, errorChan, errClosed, ctxDone>>
    /\ UNCHANGED userVars

\* case err := <-errorChan with a buffered error: return &userMessage, err
RecvError(errOk) ==
    /\ stream.pc = "loop"
    /\ errorChan # << >>
    /\ out' = NoResponse
    /\ errorChan' = Tail(errorChan)
    /\ stream' = [stream EXCEPT !.pc = "done", !.err = Head(errorChan)]
    /\ events' = FinishEvents(events, Head(errorChan), stream.userMessage, errOk)
    /\ UNCHANGED <<dbVars, send, prod, respChan, respClosed, errClosed, ctxDone>>
    /\ UNCHANGED userVars

\* case err := <-errorChan on the closed, drained channel: err == nil, loop again
RecvNilError ==
    /\ stream.pc = "loop"
    /\ errorChan = << >>
    /\ errClosed
    /\ out' = NoResponse
    /\ UNCHANGED <<dbVars, send, streamVars>>
    /\ UNCHANGED userVars

---------------------------------------------------------------------------
(* The goroutine of AIService.StreamResponse *)

\* stream, err := s.model.Stream(ctx, messages); on err: errorChan <- ..; return
ProdStream(ok) ==
    /\ prod.pc = "stream"
    /\ out' = NoResponse
    /\ IF ok
       THEN /\ prod' = [prod EXCEPT !.pc = "recv", !.open = TRUE]
            /\ UNCHANGED errorChan
       ELSE /\ Len(errorChan) < ErrorChanCap
            /\ errorChan' = Append(errorChan, "failed to create stream")
            /\ prod' = [prod EXCEPT !.pc = "closeError", !.err = "failed to create stream"]
    /\ UNCHANGED <<dbVars, send, stream, respChan, respClosed, errClosed, ctxDone, events>>
    /\ UNCHANGED userVars

\* chunk, err := stream.Recv() returning a frame with content
ProdRecvChunk ==
    /\ prod.pc = "recv"
    /\ prod.n < MaxChunks
    /\ out' = NoResponse
    /\ prod' = [prod EXCEPT !.pc = "select", !.n = @ + 1, !.chunk = <<prod.n + 1>>,
                            !.reply = @ \o <<prod.n + 1>>]
    /\ UNCHANGED <<dbVars, send, stream, respChan, respClosed, errorChan, errClosed,
                   ctxDone, events>>
    /\ UNCHANGED userVars

\* stream.Recv() returning a frame whose Content is "" (the role-only first frame):
\* chunk.Content != "" is false, the loop reads on
ProdRecvEmpty ==
    /\ prod.pc = "recv"
    /\ prod.n = 0
    /\ prod.n < MaxChunks
    /\ out' = NoResponse
    /\ prod' = [prod EXCEPT !.n = @ + 1]
    /\ UNCHANGED <<dbVars, send, stream, respChan, respClosed, errorChan, errClosed,
                   ctxDone, events>>
    /\ UNCHANGED userVars

\* stream.Recv() returning io.EOF: break
ProdRecvEOF ==
    /\ prod.pc = "recv"
    /\ out' = NoResponse
    /\ prod' = [prod EXCEPT !.pc = "closeStream", !.err = "EOF"]
    /\ UNCHANGED <<dbVars, send, stream, respChan, respClosed, errorChan, errClosed,
                   ctxDone, events>>
    /\ UNCHANGED userVars

\* stream.Recv() returning another error: errorChan <- err; break
ProdRecvError ==
    /\ prod.pc = "recv"
    /\ Len(errorChan) < ErrorChanCap
    /\ out' = NoResponse
    /\ errorChan' = Append(errorChan, "stream error")
    /\ prod' = [prod EXCEPT !.pc = "closeStream", !.err = "stream error"]
    /\ UNCHANGED <<dbVars, send, stream, respChan, respClosed, errClosed, ctxDone, events>>
    /\ UNCHANGED userVars

\* Mutant of ProdSend: the chunk is put at the head of the channel's buffer
ProdSendAtHead ==
    /\ prod.pc = "select"
    /\ Len(respChan) < RespChanCap
    /\ out' = NoResponse
    /\ respChan' = <<prod.chunk>> \o respChan
    /\ prod' = [prod EXCEPT !.pc = "recv", !.chunk = << >>]
    /\ UNCHANGED <<dbVars, send, stream, respClosed, errorChan, errClosed, ctxDone, events>>
    /\ UNCHANGED userVars

\* select { case respChan <- chunk.Content: }
ProdSend ==
    /\ prod.pc = "select"
    /\ Len(respChan) < RespChanCap
    /\ out' = NoResponse
    /\ respChan' = Append(respChan, prod.chunk)
    /\ prod' = [prod EXCEPT !.pc = "recv", !.chunk = << >>]
    /\ UNCHANGED <<dbVars, send, stream, respClosed, errorChan, errClosed, ctxDone, events>>
    /\ UNCHANGED userVars

\* Mutant of AfterCtxDone: break (which leaves only the select) instead of return
AfterCtxDoneBreak == [prod EXCEPT !.pc = "recv", !.chunk = << >>, !.sawDone = TRUE]

\* What the goroutine does once <-ctx.Done() is chosen: return
AfterCtxDone == [prod EXCEPT !.pc = "closeStream", !.chunk = << >>, !.sawDone = TRUE]

\* select { case <-ctx.Done(): return }
ProdCtxDone ==
    /\ prod.pc = "select"
    /\ ctxDone
    /\ out' = NoResponse
    /\ prod' = AfterCtxDone
    /\ UNCHANGED <<dbVars, send, stream, respChan, respClosed, errorChan, errClosed,
                   ctxDone, events>>
    /\ UNCHANGED userVars

\* defer stream.Close()
ProdCloseStream ==
    /\ prod.pc = "closeStream"
    /\ out' = NoResponse
    /\ prod' = [prod EXCEPT !.pc = "closeError", !.open = FALSE]
    /\ UNCHANGED <<dbVars, send, stream, respChan, respClosed, errorChan, errClosed,
                   ctxDone, events>>
    /\ UNCHANGED userVars

\* defer close(errorChan)
ProdCloseError ==
    /\ prod.pc = "closeError"
    /\ out' = NoResponse
    /\ errClosed' = TRUE
    /\ prod' = [prod EXCEPT !.pc = "closeResp"]
    /\ UNCHANGED <<dbVars, send, stream, respChan, respClosed, errorChan, ctxDone, events>>
    /\ UNCHANGED userVars

\* Mutant of ProdCloseResp: the goroutine exits without close(respChan)
ProdExitWithoutClose ==
    /\ prod.pc = "closeResp"
    /\ out' = NoResponse
    /\ prod' = [prod EXCEPT !.pc = "exited"]
    /\ UNCHANGED <<dbVars, send, stream, respChan, respClosed, errorChan, errClosed,
                   ctxDone, events>>
    /\ UNCHANGED userVars

\* defer close(respChan)
ProdCloseResp ==
    /\ prod.pc = "closeResp"
    /\ out' = NoResponse
    /\ respClosed' = TRUE
    /\ prod' = [prod EXCEPT !.pc = "exited"]
    /\ UNCHANGED <<dbVars, send, stream, respChan, errorChan, errClosed, ctxDone, events>>
    /\ UNCHANGED userVars

\* The request context is cancelled (the client is gone, the server gives the
\* request up) at any moment after StreamResponse was given it
Cancel ==
    /\ prod.pc # "off"
    /\ ~ctxDone
    /\ out' = NoResponse
    /\ ctxDone' = TRUE
    /\ UNCHANGED <<dbVars, send, stream, prod, respChan, respClosed, errorChan,
                   errClosed, events>>
    /\ UNCHANGED userVars

Producer ==
    \/ \E ok \in BOOLEAN : ProdStream(ok)
    \/ ProdRecvChunk
    \/ ProdRecvEmpty
    \/ ProdRecvEOF
    \/ ProdRecvError
    \/ ProdSend
    \/ ProdCtxDone
    \/ ProdCloseStream
    \/ ProdCloseError
    \/ ProdCloseResp

Consumer ==
    \/ \E cbOk, errOk \in BOOLEAN : RecvChunk(cbOk, errOk)
    \/ \E endOk \in BOOLEAN : RecvClosed(endOk)
    \/ \E errOk \in BOOLEAN : RecvError(errOk)
    \/ RecvNilError

---------------------------------------------------------------------------
(* The user routes: internal/service/user_service.go and                    *)
(* internal/handler/user_handler.go.  Register is two steps, the lookup by  *)
(* email and the insert, so that requests of several clients interleave.    *)

Clients   == {1, 2}                    \* connections a Register may arrive on
Emails    == {<<1>>, <<2>>}            \* validated e-mail addresses
Passwords == {<<1>>, <<2>>}            \* validated passwords
Nicknames == {<<3>>}                   \* validated nicknames of Register
ProfileNicknames == {<< >>, <<5>>}     \* "nickname" of PUT /user/profile, "" if absent
ProfileAvatars   == {<< >>, <<6>>}     \* "avatar" of PUT /user/profile, "" if absent

NoRequest == [op |-> "none"]

\* utils.HashPassword: a one-way hash, told apart from the plain text
HashPassword(password) == [alg |-> "hash", of |-> password]

\* utils.CheckPassword(password, hash): the hash is the hash of that password
CheckPassword(password, hash) == hash = HashPassword(password)

\* utils.GenerateJWT(user.ID, secret, expiration): a signed token keyed to the id
GenerateJWT(userID) == [user_id |-> userID]

\* src/unnamed/part_002:9-22, as Register fills it
User(id, email, hashedPassword, nickname, t) ==
    [id |-> id, email |-> email, password |-> hashedPassword, nickname |-> nickname,
     avatar |-> << >>, is_active |-> TRUE, created_at |-> t, updated_at |-> t]

\* Where("email = ?", req.Email).First(&existingUser)
FindUserByEmail(email) == {i \in DOMAIN users : users[i].email = email}

\* Where("email = ? AND is_active = ?", req.Email, true).First(&user)
FindActiveUserByEmail(email) ==
    {i \in DOMAIN users : users[i].email = email /\ users[i].is_active}

\* Where("id = ?", userID) on users
FindUserByID(userID) == {i \in DOMAIN users : users[i].id = userID}

\* UserHandler.Register / UserService.Register up to the lookup by email
RegisterBegin(k, email, password, nickname) ==
    /\ reg[k].pc = "idle"
    /\ req' = [op |-> "Register", email |-> email, password |-> password]
    /\ IF FindUserByEmail(email) # {}
       THEN /\ out' = [op |-> "Register", status |-> StatusBadRequest,
                       error |-> "email already exists"]
            /\ UNCHANGED reg
       ELSE /\ reg' = [reg EXCEPT ![k] = [pc |-> "creating", email |-> email,
                                          password |-> password,
                                          hashedPassword |-> HashPassword(password),
                                          nickname |-> nickname]]
            /\ out' = NoResponse
    /\ UNCHANGED <<users, now, chatVars>>

\* Mutant of RegisterEnd: the users table has no unique index on email, Create
\* inserts whatever is stored
RegisterEndNoUniqueIndex(k) ==
    /\ reg[k].pc = "creating"
    /\ req' = [op |-> "Register", email |-> reg[k].email, password |-> reg[k].password]
    /\ LET user == User(Len(users) + 1, reg[k].email, reg[k].hashedPassword,
                        reg[k].nickname, now)
       IN  /\ users' = Append(users, user)
           /\ now' = now + 1
           /\ out' = [op |-> "Register", status |-> StatusCreated,
                      token |-> GenerateJWT(user.id), user |-> user]
    /\ reg' = [reg EXCEPT ![k] = Idle]
    /\ UNCHANGED chatVars

\* UserService.Register from s.db.Create(&user) (the unique index on email decides),
\* the token, and the handler's answer
RegisterEnd(k) ==
    /\ reg[k].pc = "creating"
    /\ req' = [op |-> "Register", email |-> reg[k].email, password |-> reg[k].password]
    /\ IF FindUserByEmail(reg[k].email) # {}
       THEN /\ out' = [op |-> "Register", status |-> StatusBadRequest,
                       error |-> "duplicate entry"]
            /\ UNCHANGED <<users, now>>
       ELSE LET user == User(Len(users) + 1, reg[k].email, reg[k].hashedPassword,
                             reg[k].nickname, now)
            IN  /\ users' = Append(users, user)
                /\ now' = now + 1
                /\ out' = [op |-> "Register", status |-> StatusCreated,
                           token |-> GenerateJWT(user.id), user |-> user]
    /\ reg' = [reg EXCEPT ![k] = Idle]
    /\ UNCHANGED chatVars

\* Mutant of LoginSvc: an unknown e-mail is reported as such
LoginSvcTellsUnknown(email, password) ==
    LET found == FindActiveUserByEmail(email)
    IN  IF found = {} THEN [err |-> "user not found"]
        ELSE LET user == users[CHOOSE i \in found : TRUE]
             IN  IF ~CheckPassword(password, user.password)
                 THEN [err |-> "invalid email or password"]
                 ELSE [err |-> "nil", token |-> GenerateJWT(user.id), user |-> user]

\* UserService.Login
LoginSvc(email, password) ==
    LET found == FindActiveUserByEmail(email)
    IN  IF found = {} THEN [err |-> "invalid email or password"]
        ELSE LET user == users[CHOOSE i \in found : TRUE]
             IN  IF ~CheckPassword(password, user.password)
                 THEN [err |-> "invalid email or password"]
                 ELSE [err |-> "nil", token |-> GenerateJWT(user.id), user |-> user]

\* The answer of UserHandler.Login: 401 with the error's text, or 200 with the
\* LoginResponse
LoginAnswer(email, password) ==
    LET resp == LoginSvc(email, password)
    IN  IF resp.err # "nil"
        THEN [op |-> "Login", status |-> StatusUnauthorized, error |-> resp.err]
        ELSE [op |-> "Login", status |-> StatusOK,
              token |-> resp.token, user |-> resp.user]

\* UserHandler.Login
Login(email, password) ==
    /\ req' = [op |-> "Login", email |-> email, password |-> password]
    /\ out' = LoginAnswer(email, password)
    /\ UNCHANGED <<users, reg, now, chatVars>>

\* UserHandler.GetProfile / UserService.GetUserByID
GetProfile(userID) ==
    LET found == {i \in FindUserByID(userID) : users[i].is_active}
    IN  /\ req' = [op |-> "GetProfile", user |-> userID]
        /\ out' = IF found = {}
                  THEN [op |-> "GetProfile", status |-> StatusNotFound,
                        error |-> "User not found"]
                  ELSE [op |-> "GetProfile", status |-> StatusOK,
                        data |-> users[CHOOSE i \in found : TRUE]]
        /\ UNCHANGED <<users, reg, now, chatVars>>

\* Mutant of UpdateProfileSvc: nickname and avatar are written whether supplied or not
UpdateProfileAllFields(userID, nickname, avatar) ==
    [i \in DOMAIN users |->
        IF i \in FindUserByID(userID)
        THEN [users[i] EXCEPT !.updated_at = now, !.nickname = nickname,
                              !.avatar = avatar]
        ELSE users[i]]

\* UserService.UpdateProfile: Model(&model.User{}).Where("id = ?", userID).Updates(updates)
UpdateProfileSvc(userID, nickname, avatar) ==
    [i \in DOMAIN users |->
        IF i \in FindUserByID(userID)
        THEN [users[i] EXCEPT !.updated_at = now,
                              !.nickname = IF nickname # << >> THEN nickname ELSE @,
                              !.avatar = IF avatar # << >> THEN avatar ELSE @]
        ELSE users[i]]

\* UserHandler.UpdateProfile
UpdateProfile(userID, nickname, avatar) ==
    /\ req' = [op |-> "UpdateProfile", user |-> userID, nickname |-> nickname,
               avatar |-> avatar]
    /\ users' = UpdateProfileSvc(userID, nickname, avatar)
    /\ now' = IF FindUserByID(userID) = {} THEN now ELSE now + 1
    /\ out' = [op |-> "UpdateProfile", status |-> StatusOK]
    /\ UNCHANGED <<reg, chatVars>>

\* UserService.ChangePassword; GORM stamps updated_at on Update
ChangePasswordSvc(userID, oldPassword, newPassword) ==
    LET found == FindUserByID(userID)
    IN  IF found = {} THEN [err |-> "record not found", users |-> users]
        ELSE LET id == CHOOSE i \in found : TRUE
             IN  IF ~CheckPassword(oldPassword, users[id].password)
                 THEN [err |-> "invalid old password", users |-> users]
                 ELSE [err |-> "nil",
                       users |-> [users EXCEPT ![id].password = HashPassword(newPassword),
                                               ![id].updated_at = now]]

\* UserHandler.ChangePassword
ChangePassword(userID, oldPassword, newPassword) ==
    LET r == ChangePasswordSvc(userID, oldPassword, newPassword)
    IN  /\ req' = [op |-> "ChangePassword", user |-> userID,
                   old_password |-> oldPassword, new_password |-> newPassword]
        /\ users' = r.users
        /\ now' = IF r.err = "nil" THEN now + 1 ELSE now
        /\ out' = IF r.err # "nil"
                  THEN [op |-> "ChangePassword", status |-> StatusBadRequest,
                        error |-> r.err]
                  ELSE [op |-> "ChangePassword", status |-> StatusOK]
        /\ UNCHANGED <<reg, chatVars>>

---------------------------------------------------------------------------
(* Specifications *)

StreamIdle ==
    /\ stream = Idle
    /\ prod = NoProducer
    /\ respChan = << >>
    /\ errorChan = << >>
    /\ respClosed = FALSE
    /\ errClosed = FALSE
    /\ ctxDone = FALSE
    /\ events = << >>

\* The users table of the chat specifications: the two authenticated users
ChatUsers ==
    /\ users = <<User(1, <<1>>, HashPassword(<<1>>), <<3>>, 0),
                 User(2, <<2>>, HashPassword(<<2>>), <<3>>, 0)>>
    /\ reg = [k \in Clients |-> Idle]
    /\ req = NoRequest

\* The process after database.Init on an empty schema
Init ==
    /\ conversations = << >>
    /\ messages = << >>
    /\ now = 1
    /\ out = NoResponse
    /\ send = Idle
    /\ StreamIdle
    /\ ChatUsers

\* The CRUD routes and SendMessage, requests of all users interleaved
Next ==
    \/ \E u \in Users, t \in NewTitles :
          /\ now < MaxClock
          /\ Len(conversations) < Cardinality(ConvIds)   \* no request could name more
          /\ CreateConversation(u, t)
    \/ \E u \in Users, q \in Queries : GetConversations(u, q.page, q.page_size)
    \/ \E u \in Users, c \in ConvIds : GetConversation(u, c)
    \/ \E u \in Users, c \in ConvIds, t \in UpdateTitles :
          (FindConversation(u, c) # {} => now < MaxClock) /\ UpdateConversation(u, c, t)
    \/ \E u \in Users, c \in ConvIds, f \in Faults : DeleteConversation(u, c, f)
    \/ \E u \in Users, c \in ConvIds, q \in Queries :
          GetMessages(u, c, q.page, q.page_size)
    \/ \E u \in Users, c \in ConvIds, m \in Contents :
          now < MaxClock /\ SendMessageBegin(u, c, m)
    \/ \E r \in Replies : SendMessageEnd(r)

Spec == Init /\ [][Next]_vars

\* A database holding one conversation of each user, before a streaming request
InitStream ==
    /\ conversations = <<Conversation(1, 1, <<1>>, 1), Conversation(2, 2, <<2>>, 2)>>
    /\ messages = << >>
    /\ now = 3
    /\ out = NoResponse
    /\ send = Idle
    /\ StreamIdle
    /\ ChatUsers

\* One streaming request: handler, select loop, producer goroutine, cancellation
NextStream ==
    \/ \E u \in Users, c \in ConvIds, m \in Contents, startOk, errOk \in BOOLEAN :
          StreamChatBegin(u, c, m, startOk, errOk)
    \/ Consumer
    \/ Producer
    \/ Cancel

SpecStream == InitStream /\ [][NextStream]_vars

\* A conversation of user 1 after n earlier messages (user and assistant turns
\* alternating, the last user turn unanswered when n is odd)
SeedMessages(n) ==
    [i \in 1..n |->
        Message(i, 1, IF i % 2 = 1 THEN "user" ELSE "assistant",
                IF i % 2 = 1 THEN <<2>> ELSE <<7>>, i + 1)]

\* The user turns added to the seeded history
NewTurns == Cardinality({i \in DOMAIN messages : messages[i].content \in Contents})

InitHistory ==
    \E n \in 0..MaxSeed :
        /\ conversations =
              <<[Conversation(1, 1, <<1>>, 1) EXCEPT
                    !.updated_at = IF n < 2 THEN 1 ELSE 2 * (n \div 2) + 1]>>
        /\ messages = SeedMessages(n)
        /\ now = n + 2
        /\ out = NoResponse
        /\ send = Idle
        /\ StreamIdle
        /\ ChatUsers
    /\ ChatUsers

\* The next turn of a conversation with a history, on either route, up to the
\* call of the AI client
NextHistory ==
    \/ \E u \in Users, m \in Contents :
          NewTurns < MaxTurns /\ SendMessageBegin(u, 1, m)
    \/ \E r \in Replies : SendMessageEnd(r)
    \/ \E u \in Users, m \in Contents, startOk, errOk \in BOOLEAN :
          NewTurns < MaxTurns /\ StreamChatBegin(u, 1, m, startOk, errOk)

SpecHistory == InitHistory /\ [][NextHistory]_vars

\* The user routes on a database that is empty or holds one user whose account
\* has been deactivated (is_active = 0)
InitUser ==
    /\ \/ users = << >>
       \/ users = <<[User(1, <<2>>, HashPassword(<<1>>), <<3>>, 0)
                        EXCEPT !.is_active = FALSE]>>
    /\ reg = [k \in Clients |-> Idle]
    /\ req = NoRequest
    /\ conversations = << >>
    /\ messages = << >>
    /\ now = 1
    /\ out = NoResponse
    /\ send = Idle
    /\ StreamIdle

\* Requests on the user routes, interleaved; the routes behind Auth carry the id
\* of a stored user (tokens are issued by Register and Login only)
NextUser ==
    \/ \E k \in Clients, e \in Emails, p \in Passwords, n \in Nicknames :
          (FindUserByEmail(e) = {} => now < MaxClock) /\ RegisterBegin(k, e, p, n)
    \/ \E k \in Clients : RegisterEnd(k)
    \/ \E e \in Emails, p \in Passwords : Login(e, p)
    \/ \E u \in DOMAIN users : GetProfile(u)
    \/ \E u \in DOMAIN users, n \in ProfileNicknames, a \in ProfileAvatars :
          now < MaxClock /\ UpdateProfile(u, n, a)
    \/ \E u \in DOMAIN users, o \in Passwords, p \in Passwords :
          (ChangePasswordSvc(u, o, p).err = "nil" => now < MaxClock)
             /\ ChangePassword(u, o, p)

SpecUser == InitUser /\ [][NextUser]_vars

\* The streaming request with the Go scheduler's guarantee: the producer
\* goroutine, while it can take a step, eventually takes one
SpecStreamFair == InitStream /\ [][NextStream]_vars /\ WF_vars(Producer)

\* The streaming request with, besides, Go's select choosing at random among the
\* ready cases: the loop, while it can receive something, eventually does
SpecStreamFairSelect ==
    InitStream /\ [][NextStream]_vars /\ WF_vars(Producer) /\ WF_vars(Consumer)

---------------------------------------------------------------------------
(* Properties *)

\* The row is stored and visible
Persisted(msg) == msg.id \in DOMAIN messages /\ messages[msg.id] = msg

\* The assistant messages stored in msg's conversation after msg
AssistantAfter(msg) ==
    {i \in DOMAIN messages :
        /\ i > msg.id
        /\ messages[i].conversation_id = msg.conversation_id
        /\ messages[i].role = "assistant"}

ProviderErrors == {"failed to create stream", "stream error"}

\* C1: once the producer goroutine has reported an error on errorChan, the turn
\* (unless its callback had already failed) returns that error, keeps the user
\* message and stores no assistant message.
C1_ProviderErrorSurfaced ==
    (stream.pc = "done" /\ prod.err \in ProviderErrors /\ stream.err # "send chunk")
        => /\ stream.err = prod.err
           /\ Persisted(stream.userMessage)
           /\ AssistantAfter(stream.userMessage) = {}

\* C2: a finished turn holds no half-written assistant message: a stored assistant
\* message carries the whole reply the provider delivered, also when the request
\* context was cancelled mid-stream.
C2_NoHalfWrittenAssistant ==
    (stream.pc = "done" /\ "userMessage" \in DOMAIN stream)
        => \A i \in AssistantAfter(stream.userMessage) :
              messages[i].content = prod.reply

\* C9: when onChunk fails the loop aborts at that chunk: the call returns the
\* callback's error, the tables are as before the step (user message stored, no
\* assistant message, updated_at untouched), and afterwards the request neither
\* invokes onChunk nor writes to the tables or the event stream again.
C9_CallbackFailureAborts ==
    [][/\ \A errOk \in BOOLEAN :
            RecvChunk(FALSE, errOk)
                => /\ stream'.pc = "done"
                   /\ stream'.err = "send chunk"
                   /\ UNCHANGED <<messages, conversations>>
                   /\ Persisted(stream.userMessage)
                   /\ AssistantAfter(stream.userMessage) = {}
       /\ (stream.pc = "done" /\ stream.err = "send chunk")
                => UNCHANGED <<stream, messages, conversations, events>>]_vars

\* C9 witness: a turn aborted by onChunk at its second chunk, the producer gone on
C9_Witness ==
    /\ stream.pc = "done"
    /\ stream.err = "send chunk"
    /\ Len(stream.fullResponse) = 2
    /\ prod.pc = "exited"

\* C10: after the request context is cancelled the producer goroutine eventually
\* exits with both channels closed, and once it has taken the <-ctx.Done() case
\* it enqueues no further chunk.
C10_CancelStopsProducer ==
    /\ (ctxDone ~> (prod.pc = "exited" /\ respClosed /\ errClosed))
    /\ [][prod.sawDone => Len(respChan') <= Len(respChan)]_vars

\* C10 witness: the goroutine, blocked on the full respChan, saw the cancellation
\* and exited
C10_Witness ==
    /\ ctxDone
    /\ prod.sawDone
    /\ prod.pc = "exited"
    /\ Len(respChan) = RespChanCap
    /\ respClosed
    /\ errClosed

\* Conversation cid is stored, not deleted, and owned by a user other than uid
OwnedByOther(uid, cid) ==
    /\ cid \in DOMAIN conversations
    /\ ~conversations[cid].deleted
    /\ conversations[cid].user_id # uid

\* C3: DeleteConversation on another user's conversation (one that holds messages)
\* answers NotFound and leaves both tables as they were.
C3_ForeignDeleteRefused ==
    [][out'.op = "DeleteConversation" =>
          \A u \in Users, c \in ConvIds :
             (/\ DeleteConversation(u, c, "none")
              /\ OwnedByOther(u, c)
              /\ MessagesOf(messages, c) # {})
                 => /\ out'.status = StatusNotFound
                    /\ messages' = messages
                    /\ conversations' = conversations]_vars

\* C4: the model input of a turn ends with the user message that turn has just
\* stored, whatever the length of the conversation.
C4_HistoryEndsWithNewMessage ==
    /\ send.pc = "generating"
          => /\ send.aiMessages # << >>
             /\ send.aiMessages[Len(send.aiMessages)] =
                   [role |-> "user", content |-> send.userMessage.content]
    /\ stream.pc = "loop"
          => /\ stream.aiMessages # << >>
             /\ stream.aiMessages[Len(stream.aiMessages)] =
                   [role |-> "user", content |-> stream.userMessage.content]

\* C5: SendMessage on a conversation that is absent or owned by another user
\* answers NotFound, does not call the AI client and writes no row.
C5_ForeignSendRefused ==
    [][out'.op = "SendMessage" =>
          \A u \in Users, c \in ConvIds, m \in Contents :
             (SendMessageBegin(u, c, m) /\ FindConversation(u, c) = {})
                 => /\ out'.status = StatusNotFound
                    /\ send'.pc = "idle"
                    /\ messages' = messages
                    /\ conversations' = conversations]_vars

\* C6: a conversation list holds only visible conversations of the requesting
\* user, and its total is the number of that user's visible conversations.
C6_ListOnlyOwn ==
    out.op = "GetConversations"
        => /\ \A i \in DOMAIN out.data :
                 out.data[i].user_id = out.user /\ ~out.data[i].deleted
           /\ out.total =
                 Cardinality({c \in DOMAIN conversations :
                                 /\ conversations[c].user_id = out.user
                                 /\ ~conversations[c].deleted})

\* C6 witness: a user's non-empty list while the other user has a conversation, too
C6_Witness ==
    /\ out.op = "GetConversations"
    /\ Len(out.data) = 1
    /\ \E c \in DOMAIN conversations :
          conversations[c].user_id # out.user /\ ~conversations[c].deleted

\* C7: a DeleteConversation of the owner that succeeds leaves the conversation and
\* all its messages deleted, and GetMessages or GetConversation on a deleted
\* conversation answers NotFound.
C7_DeletedConversationGone ==
    [][/\ out'.op = "DeleteConversation" =>
            \A u \in Users, c \in ConvIds :
               (DeleteConversation(u, c, "none") /\ FindConversation(u, c) # {})
                   => /\ conversations'[c].deleted
                      /\ MessagesOf(messages', c) = {}
       /\ (/\ out'.op \in {"GetMessages", "GetConversation"}
           /\ out'.conv \in DOMAIN conversations
           /\ conversations[out'.conv].deleted)
                => out'.status = StatusNotFound]_vars

\* C8: DeleteConversation of the owner is all or nothing: when a statement or the
\* commit fails, the call answers with an error and both tables are as before;
\* otherwise the conversation and all its messages are deleted together.
C8_DeleteAtomic ==
    [][out'.op = "DeleteConversation" =>
          \A u \in Users, c \in ConvIds, f \in Faults :
             (DeleteConversation(u, c, f) /\ FindConversation(u, c) # {})
                 => IF f # "none"
                    THEN /\ out'.status = StatusInternalServerError
                         /\ messages' = messages
                         /\ conversations' = conversations
                    ELSE /\ out'.status = StatusOK
                         /\ conversations'[c].deleted
                         /\ MessagesOf(messages', c) = {}]_vars

\* C8 witness: the owner's delete has failed and the conversation still holds its
\* messages
C8_Witness ==
    /\ out.op = "DeleteConversation"
    /\ out.status = StatusInternalServerError
    /\ FindConversation(out.user, out.conv) # {}
    /\ MessagesOf(messages, out.conv) # {}

\* C11: once the select loop has returned early (onChunk failed, or errorChan
\* yielded an error) the producer goroutine eventually exits and closes the
\* provider stream, also when the request context is never cancelled.
C11_ProducerTornDown ==
    (stream.pc = "done" /\ stream.err # "nil" /\ prod.pc # "off")
        ~> (prod.pc = "exited" /\ ~prod.open)

\* C12: when s.model.Generate fails or returns empty content, SendMessage answers
\* with that error, stores no assistant message, leaves updated_at (and every
\* other column) as it was, and the user message it stored before the call is
\* still the row it wrote.
C12_GenerateFailureKeepsUserMessage ==
    [][out'.op = "SendMessage" =>
          \A r \in Replies :
             (SendMessageEnd(r) /\ (r.err \/ r.content = << >>))
                 => /\ out'.status = StatusInternalServerError
                    /\ out'.error \in {"failed to generate response",
                                       "no response generated"}
                    /\ messages' = messages
                    /\ conversations' = conversations
                    /\ send.userMessage.id \in DOMAIN messages'
                    /\ messages'[send.userMessage.id].content = send.userMessage.content
                    /\ messages'[send.userMessage.id].role = "user"]_vars

\* C12 witness: the turn has failed on an empty completion, its user message is
\* stored and visible and nothing follows it
C12_Witness ==
    /\ out.op = "SendMessage"
    /\ out.error = "no response generated"
    /\ \E i \in DOMAIN messages :
          /\ messages[i].conversation_id = out.conv
          /\ messages[i].role = "user"
          /\ ~messages[i].deleted
          /\ AssistantAfter(messages[i]) = {}

\* C13: a SendMessage that succeeds answers with the user message and the
\* assistant message (the provider's reply), both stored and visible in that
\* conversation, the user message created first, and the conversation's updated_at
\* is the assistant message's created_at.
C13_SendMessageSuccess ==
    (out.op = "SendMessage" /\ out.status = StatusOK)
        => /\ out.user_message.role = "user"
           /\ out.user_message.content \in Contents
           /\ out.assistant_message.role = "assistant"
           /\ out.assistant_message.content \in {r.content : r \in Replies} \ {<< >>}
           /\ out.user_message.conversation_id = out.conv
           /\ out.assistant_message.conversation_id = out.conv
           /\ Persisted(out.user_message)
           /\ Persisted(out.assistant_message)
           /\ out.user_message.created_at < out.assistant_message.created_at
           /\ conversations[out.conv].updated_at = out.assistant_message.created_at

\* C14: a list request with page_size above 100 is served with page_size 100 and
\* one with page below 1 as page 1; the page_size served lies in 1..100 and the
\* page served is at least 1.
C14_PaginationClamped ==
    [][(out'.op \in {"GetConversations", "GetMessages"} /\ out'.status = StatusOK) =>
          \A u \in Users, c \in ConvIds, q \in Queries :
             (\/ GetConversations(u, q.page, q.page_size)
              \/ GetMessages(u, c, q.page, q.page_size))
                 => /\ q.page_size > MaxPageSize => out'.page_size = MaxPageSize
                    /\ q.page < 1 => out'.page = 1
                    /\ out'.page_size \in 1..MaxPageSize
                    /\ out'.page >= 1]_vars

\* C15: UpdateConversation on a conversation that is absent or not the user's
\* answers NotFound and changes no title; on the user's own conversation it
\* changes the title of that conversation only.
C15_UpdateScopedToOwner ==
    [][out'.op = "UpdateConversation" =>
          \A u \in Users, c \in ConvIds, t \in UpdateTitles :
             UpdateConversation(u, c, t)
                 => IF FindConversation(u, c) = {}
                    THEN /\ out'.status = StatusNotFound
                         /\ \A i \in DOMAIN conversations :
                               conversations'[i].title = conversations[i].title
                    ELSE /\ out'.status = StatusOK
                         /\ conversations'[c].title = t
                         /\ \A i \in DOMAIN conversations \ {c} :
                               conversations'[i].title = conversations[i].title]_vars

\* C16: Register with an e-mail that is stored fails with Conflict and creates no
\* row; with a fresh e-mail it creates exactly one row, active and carrying that
\* e-mail.
C16_RegisterUniqueEmail ==
    [][out'.op = "Register" =>
          /\ \A k \in Clients, e \in Emails, p \in Passwords, n \in Nicknames :
                (RegisterBegin(k, e, p, n) /\ FindUserByEmail(e) # {})
                    => /\ out'.status = 409      \* consts.StatusConflict
                       /\ users' = users
          /\ \A k \in Clients :
                (RegisterEnd(k) /\ FindUserByEmail(reg[k].email) = {})
                    => /\ out'.status = StatusCreated
                       /\ Len(users') = Len(users) + 1
                       /\ SubSeq(users', 1, Len(users)) = users
                       /\ users'[Len(users')].email = reg[k].email
                       /\ users'[Len(users')].is_active]_vars

\* Login(email, password) is refused: no active user has the e-mail, or the
\* password is not the stored one
LoginRefused(email, password) ==
    \/ FindActiveUserByEmail(email) = {}
    \/ \E i \in FindActiveUserByEmail(email) : users[i].password # HashPassword(password)

\* C17: a refused Login answers Unauthorized without a token and changes no
\* stored state, and its answer is the answer of every other refused Login: an
\* unknown or deactivated e-mail cannot be told from a wrong password.
C17_LoginFailuresAlike ==
    [][out'.op = "Login" =>
          \A e \in Emails, p \in Passwords :
             (Login(e, p) /\ LoginRefused(e, p))
                 => /\ out'.status = StatusUnauthorized
                    /\ "token" \notin DOMAIN out'
                    /\ UNCHANGED <<users, reg, dbVars>>
                    /\ \A e2 \in Emails, p2 \in Passwords :
                          LoginRefused(e2, p2) => LoginAnswer(e2, p2) = out']_vars

\* C17 witness: a Login with a wrong password for an active user has been refused
\* while another e-mail has no active user
C17_Witness ==
    /\ req.op = "Login"
    /\ out.status = StatusUnauthorized
    /\ FindActiveUserByEmail(req.email) # {}
    /\ \E e \in Emails : FindActiveUserByEmail(e) = {}

\* C18: ChangePassword with a wrong old password answers Unauthorized and leaves
\* the credential; otherwise the credential is the hash of the new password, so
\* that (for an active user) Login with the new password succeeds and Login with
\* a different old one fails; no other user's credential changes.
C18_ChangePassword ==
    [][out'.op = "ChangePassword" =>
          \A u \in DOMAIN users, o \in Passwords, p \in Passwords :
             ChangePassword(u, o, p)
                 => /\ \A v \in DOMAIN users \ {u} : users'[v].password = users[v].password
                    /\ IF users[u].password # HashPassword(o)
                       THEN /\ out'.status = StatusUnauthorized
                            /\ users'[u].password = users[u].password
                       ELSE /\ out'.status = StatusOK
                            /\ users'[u].password = HashPassword(p)
                            /\ users[u].is_active =>
                                  /\ LoginAnswer(users[u].email, p)'.status = StatusOK
                                  /\ o # p =>
                                        LoginAnswer(users[u].email, o)'.status
                                            = StatusUnauthorized]_vars

\* C19: UpdateProfile writes the nickname and the avatar that were supplied and
\* nothing else of the row: a field not supplied keeps its value, e-mail,
\* credential and active flag stay, and no other user's row changes.
C19_UpdateProfileFrame ==
    [][out'.op = "UpdateProfile" =>
          \A u \in DOMAIN users, n \in ProfileNicknames, a \in ProfileAvatars :
             UpdateProfile(u, n, a)
                 => /\ DOMAIN users' = DOMAIN users
                    /\ users'[u].nickname = IF n = << >> THEN users[u].nickname ELSE n
                    /\ users'[u].avatar = IF a = << >> THEN users[u].avatar ELSE a
                    /\ users'[u].email = users[u].email
                    /\ users'[u].password = users[u].password
                    /\ users'[u].is_active = users[u].is_active
                    /\ users'[u].id = users[u].id
                    /\ \A v \in DOMAIN users \ {u} : users'[v] = users[v]]_vars

\* C19 witness: a request carrying only an avatar has been answered, the user
\* has the new avatar and the nickname of the registration, and another user
\* is stored
C19_Witness ==
    /\ req.op = "UpdateProfile"
    /\ req.nickname = << >>
    /\ req.avatar = <<6>>
    /\ users[req.user].avatar = <<6>>
    /\ users[req.user].nickname = <<3>>
    /\ Len(users) > 1

\* The text of the chunk events written so far, in the order written: the chunks
\* onChunk was called with and accepted
RECURSIVE ChunksSent(_)
ChunksSent(evs) ==
    IF evs = << >> THEN << >>
    ELSE (IF Head(evs).type = "chunk" THEN Head(evs).content ELSE << >>)
         \o ChunksSent(Tail(evs))

\* The text waiting in a channel buffer, in order
RECURSIVE Buffered(_)
Buffered(ch) == IF ch = << >> THEN << >> ELSE Head(ch) \o Buffered(Tail(ch))

IsPrefix(s, t) == Len(s) <= Len(t) /\ SubSeq(t, 1, Len(s)) = s

\* C20: the chunks handed to onChunk, followed by those still buffered in
\* respChan, are at every moment a prefix of what the provider has delivered
\* (each chunk once, in provider order); when the provider stream ends with EOF
\* and the turn completes, onChunk has had every chunk, and the assistant message
\* stored on completion holds exactly the chunks handed to onChunk, in order.
C20_ChunksInOrderOnce ==
    /\ stream.pc \in {"loop", "done"} /\ "fullResponse" \in DOMAIN stream
          => /\ IsPrefix(stream.fullResponse \o Buffered(respChan), prod.reply)
             /\ IsPrefix(ChunksSent(events), stream.fullResponse)
             /\ stream.err # "send chunk" => ChunksSent(events) = stream.fullResponse
    /\ (stream.pc = "done" /\ stream.err = "nil")
          => /\ AssistantAfter(stream.userMessage) # {}
             /\ \A i \in AssistantAfter(stream.userMessage) :
                   messages[i].content = ChunksSent(events)
             /\ prod.err = "EOF" => ChunksSent(events) = prod.reply

\* C20 witness: a turn of three chunks has completed after EOF and its assistant
\* message is stored
C20_Witness ==
    /\ stream.pc = "done"
    /\ stream.err = "nil"
    /\ prod.err = "EOF"
    /\ Len(ChunksSent(events)) = 3
    /\ \E i \in AssistantAfter(stream.userMessage) : Len(messages[i].content) = 3

TerminalTypes == {"end", "error"}

\* The events written have the form start, chunk*, and then at most one terminal
\* event, which is there only once StreamChat has returned
EventShape ==
    /\ \A i \in DOMAIN events :
          /\ events[i].type = "start" <=> i = 1
          /\ events[i].type \in TerminalTypes
                => i = Len(events) /\ stream.pc = "done"
    /\ \A i \in DOMAIN events :
          events[i].type = "end"
              => /\ stream.err = "nil"
                 /\ events[i].user_message_id = stream.userMessage.id
                 /\ Persisted(stream.userMessage)
    /\ \A i \in DOMAIN events : events[i].type = "error" => stream.err # "nil"

\* C21: the events written for a streaming request are one start event, then
\* chunk events, then one terminal event and nothing after it; the step at which
\* StreamChat returns writes that terminal event (unless the write itself
\* fails): end with the id of the stored user message when StreamChat returned
\* nil, error with the error's text otherwise.
C21_EventSequence ==
    /\ []EventShape
    /\ [][(stream.pc = "loop" /\ stream'.pc = "done") =>
             /\ RecvClosed(TRUE)
                   => events' = Append(events, [type |-> "end",
                                                user_message_id |-> stream.userMessage.id])
             /\ (RecvError(TRUE) \/ RecvChunk(FALSE, TRUE))
                   => events' = Append(events, [type |-> "error",
                                                message |-> stream'.err])
             /\ stream'.err = "nil" <=> \E endOk \in BOOLEAN : RecvClosed(endOk)]_vars
    /\ [][stream.pc = "done" => events' = events]_vars

\* C21 witness: a completed turn whose events are start, two chunks, end
C21_Witness ==
    /\ stream.pc = "done"
    /\ Len(events) = 4
    /\ events[1].type = "start"
    /\ events[2].type = "chunk"
    /\ events[3].type = "chunk"
    /\ events[4].type = "end"

\* C22: whatever the interleaving of DeleteConversation with a turn in flight on
\* the same conversation, every message that is stored and not deleted belongs to
\* a conversation that is stored and not deleted.
C22_NoMessageInDeletedConversation ==
    \A i \in DOMAIN messages :
        ~messages[i].deleted
            => /\ messages[i].conversation_id \in DOMAIN conversations
               /\ ~conversations[messages[i].conversation_id].deleted

\* C23: every stored assistant message has non-empty content; in particular a
\* provider stream that ends (EOF) without having produced a chunk leaves no
\* stored assistant message.
C23_AssistantNonEmpty ==
    prod.err = "EOF"
        => \A i \in DOMAIN messages :
              messages[i].role = "assistant" => messages[i].content # << >>

\* C24: the goroutine sends at most one error, so its send on errorChan finds the
\* slot free; having exited it has closed both channels; and once it has exited
\* the select loop (choosing fairly among its ready cases) drains respChan and
\* returns, the nil values read from the closed errorChan changing nothing.
C24_LoopTerminates ==
    /\ [](/\ prod.pc \in {"stream", "recv", "select"} => errorChan = << >>
          /\ Len(errorChan) <= ErrorChanCap
          /\ prod.pc = "exited" => respClosed /\ errClosed)
    /\ [][RecvNilError => UNCHANGED <<stream, dbVars, events, respChan>>]_vars
    /\ (prod.pc = "exited") ~> (stream.pc = "done")

\* C24 witness: the goroutine has exited after EOF, both channels are closed and
\* the loop still has chunks to drain
C24_Witness ==
    /\ prod.pc = "exited"
    /\ prod.err = "EOF"
    /\ respClosed
    /\ errClosed
    /\ stream.pc = "loop"
    /\ Len(respChan) >= 2

\* C25: no two stored users have the same e-mail, also when two Register calls
\* with one e-mail have both passed the lookup before either inserts: the call
\* that inserts second fails and creates no row.
C25_ConcurrentRegister ==
    /\ [](\A i, j \in DOMAIN users : users[i].email = users[j].email => i = j)
    /\ [][out'.op = "Register" =>
             \A k \in Clients :
                (RegisterEnd(k) /\ FindUserByEmail(reg[k].email) # {})
                    => /\ out'.status # StatusCreated
                       /\ "error" \in DOMAIN out'
                       /\ users' = users]_vars

\* C25 witness: of two registrations that had both passed the lookup, the second
\* to insert has failed on the unique index and one row carries the e-mail
C25_Witness ==
    /\ req.op = "Register"
    /\ out.op = "Register"
    /\ out.status = StatusBadRequest
    /\ out.error = "duplicate entry"
    /\ Cardinality(FindUserByEmail(req.email)) = 1

=============================================================================
